---- MODULE Spec2Model ----
(***************************************************************************)
(* A model of metsi-simlib-rust: the event graph (src/src/event_graph.rs), *)
(* the branching generators (src/src/branching_generators.rs), the         *)
(* operation binder (src/src/configuration_utils.rs) and the driver loop   *)
(* of src/tests/simulation_test.rs.                                        *)
(*                                                                         *)
(* Nodes live in an arena: node k is the k-th Rc<RefCell<EventDAG<T>>>     *)
(* ever created.  operation[k] is its boxed operation, followers[k] its    *)
(* followers vector (a sequence of node ids, in push order).  An Rc clone  *)
(* is the node id.  T is i32 with values far from the overflow range.      *)
(***************************************************************************)
EXTENDS Integers, Sequences, FiniteSets, TLC

VARIABLES
    operation,   \* operation[k]: the operation held by node k
    followers,   \* followers[k]: the followers vector of node k
    nodes,       \* the frontier (EventNodes) returned by the latest generator / collection
    call,        \* the latest operation performed, with its arguments
    simconfig,   \* the driver's list of (generator, operation names) declarations
    pc,          \* the driver's position in simconfig (number of declarations applied)
    configuration, \* the caller's map: operation name -> ParameterMap
    bound,       \* the bound operation under test (a closure), or NoClosure
    given,       \* the ParameterMap handed to bound_operation when `bound` was made
    val,         \* the values threaded through `bound`: the initial one, then each result
    tfn,         \* traversal machine: the function being executed
    tstart,      \* traversal machine: the node it was started on
    stack,       \* traversal machine: the call stack (innermost frame last)
    tstate,      \* traversal machine: "idle", "running" or "returned"
    tresult      \* traversal machine: the value returned to the caller

vars == <<operation, followers, nodes, call, simconfig, pc,
          configuration, bound, given, val, tfn, tstart, stack, tstate, tresult>>

graphVars == <<operation, followers, nodes, call>>
driverVars == <<simconfig, pc>>
bindVars == <<configuration, bound, given, val>>
travVars == <<tfn, tstart, stack, tstate, tresult>>

-----------------------------------------------------------------------------
(* Bounds of the model.                                                    *)

MaxNodes == 4        \* nodes in the hand-built graphs of GraphSpec
MaxEdges == 4        \* add_follower_node calls made on the hand-built graphs of GraphSpec
MaxPayload == 1      \* initial states x range over 0..MaxPayload
MaxGenNodes == 5     \* nodes in the graphs of GenSpec
MaxCalls == 3        \* generator calls in one behaviour of GenSpec
MaxFrontier == 2     \* length of the frontier handed to a generator in GenSpec
MaxOps == 2          \* length of the operation chain handed to a generator
MaxSteps == 3        \* declarations in the driver's simconfig
MaxBoundCalls == 3   \* successive calls of one bound operation in BindSpec
MaxTravNodes == 3    \* nodes in the graphs of TravSpec
MaxTravEdges == 2    \* add_follower_node calls made on the graphs of TravSpec
MaxDepth == 4        \* call-stack depth at which a traversal of TravSpec is cut off

Payloads == 0 .. MaxPayload

-----------------------------------------------------------------------------
(* Sequence helpers.                                                       *)

RECURSIVE Flatten(_)
Flatten(ss) == IF ss = <<>> THEN <<>> ELSE Head(ss) \o Flatten(Tail(ss))

Range(s) == {s[i] : i \in 1 .. Len(s)}

RECURSIVE SumSeq(_)
SumSeq(s) == IF s = <<>> THEN 0 ELSE Head(s) + SumSeq(Tail(s))

SeqsUpTo(S, n) == UNION {[1 .. k -> S] : k \in 0 .. n}

-----------------------------------------------------------------------------
(* Parameter maps and operations.                                          *)

\* The decimal digit characters.  A string is the sequence of its characters.
Digits == {"0", "1", "2", "3", "4", "5", "6", "7", "8", "9"}

\* char::to_digit(10) of a decimal digit character.
DigitValue(c) ==
    CASE c = "0" -> 0 [] c = "1" -> 1 [] c = "2" -> 2 [] c = "3" -> 3 [] c = "4" -> 4
      [] c = "5" -> 5 [] c = "6" -> 6 [] c = "7" -> 7 [] c = "8" -> 8 [] c = "9" -> 9

I32Max == 2147483647
I32Min == -I32Max - 1

\* Result<i32, ParseIntError>
Ok(v) == [ok |-> TRUE, value |-> v, kind |-> "none"]
Err(kind) == [ok |-> FALSE, value |-> 0, kind |-> kind]

\* The digit loop of i32::from_str, left to right: a character that is not a
\* digit is InvalidDigit; checked_mul(10) and then checked_add(digit) that leave
\* the i32 range are PosOverflow (after a minus sign the value is accumulated
\* downwards with checked_sub, and leaving the range is NegOverflow).
RECURSIVE ParseDigits(_, _, _)
ParseDigits(s, acc, positive) ==
    IF s = <<>> THEN Ok(acc)
    ELSE IF Head(s) \notin Digits THEN Err("InvalidDigit")
    ELSE LET d == DigitValue(Head(s))
         IN  IF positive
             THEN IF acc > I32Max \div 10 \/ 10 * acc > I32Max - d
                  THEN Err("PosOverflow")
                  ELSE ParseDigits(Tail(s), 10 * acc + d, positive)
             ELSE IF acc < -(I32Max \div 10) \/ 10 * acc < I32Min + d
                  THEN Err("NegOverflow")
                  ELSE ParseDigits(Tail(s), 10 * acc - d, positive)

\* str::parse::<i32>(): the empty string is Empty, a lone sign is InvalidDigit,
\* one leading "+" or "-" is accepted.
from_str(s) ==
    IF s = <<>> THEN Err("Empty")
    ELSE IF s = <<"+">> \/ s = <<"-">> THEN Err("InvalidDigit")
    ELSE IF Head(s) = "+" THEN ParseDigits(Tail(s), 0, TRUE)
    ELSE IF Head(s) = "-" THEN ParseDigits(Tail(s), 0, FALSE)
    ELSE ParseDigits(s, 0, TRUE)

\* Result::unwrap: the value of an Ok.  On an Err it panics and has no value;
\* the actions that call an operation test Panics first.
unwrap(r) == CASE r.ok -> r.value

\* .parse::<i32>().unwrap()
parse_i32(s) == unwrap(from_str(s))

\* ParameterMap::new(): no option set.
NoParams == [k \in {} |-> <<>>]

\* fn increment(val, params): val + params["increase"].parse()
parametered_increment(x, params) == x + parse_i32(params["increase"])

\* fn decrement(val, params): val - params["decrease"].parse()
parametered_decrement(x, params) == x - parse_i32(params["decrease"])

\* The two-argument functions of the driver's operation_map.
CallParametered(name, x, params) ==
    CASE name = "increment" -> parametered_increment(x, params)
      [] name = "decrement" -> parametered_decrement(x, params)

\* The option an operation of the driver's operation_map reads.
ParamKey(name) == IF name = "increment" THEN "increase" ELSE "decrease"

\* Whether op(x, params) panics: params.get(key).unwrap() on a missing option,
\* or .parse::<i32>().unwrap() on a value that does not parse.
Panics(name, params) ==
    \/ ParamKey(name) \notin DOMAIN params
    \/ ~from_str(params[ParamKey(name)]).ok

\* A faulty closure: reads the caller's configuration at call time instead of
\* its own copy of the parameters.
ClosureParamsLive(c) == configuration[c.f]

\* The parameters a bound operation hands to its function on a call:
\* the closure's own captured map, cloned (params.clone()).
ClosureParams(c) == c.params

\* bound_operation(op, params): a closure owning a copy of params.
bound_operation(op, params) == [kind |-> "bound", f |-> op, params |-> params]

\* A plain fn(i32) -> i32 boxed as an operation.
PlainOp(name) == [kind |-> "plain", f |-> name, params |-> NoParams]

\* (operation)(payload): calling a boxed operation.  Plain operations are the
\* unit tests' increment and do_nothing, and double, which stands for a
\* caller-supplied operation that does not commute with the others.
ApplyOp(o, x) ==
    IF o.kind = "bound" THEN CallParametered(o.f, x, ClosureParams(o))
    ELSE CASE o.f = "do_nothing" -> x
           [] o.f = "increment" -> x + 1
           [] o.f = "double" -> 2 * x

-----------------------------------------------------------------------------
(* The event graph: pure functions of a graph (O: operations, F: followers) *)

NodeIds(F) == 1 .. Len(F)

\* The number of follower entries in the whole graph.
EdgeCount(F) == SumSeq([n \in 1 .. Len(F) |-> Len(F[n])])

\* EventDAG::is_leaf
is_leaf(F, n) == Len(F[n]) = 0

\* EventDAG::new_node: the arena with one more node, without followers.
new_node(O, F, op) == [operation |-> Append(O, op), followers |-> Append(F, <<>>)]

\* EventDAG::add_follower_node: push a clone of `m` onto n's followers.
add_follower_node(F, n, m) == [F EXCEPT ![n] = Append(@, m)]

\* EventDAG::add_branch: wrap a new EventDAG and push it onto n's followers.
add_branch(O, F, n, op) ==
    [operation |-> Append(O, op),
     followers |-> add_follower_node(Append(F, <<>>), n, Len(F) + 1)]

\* A faulty collect_leaf_nodes: pushes every follower, leaf or not, and never
\* descends.
collect_leaf_nodes_shallow(F, n) == F[n]

\* EventDAG::collect_leaf_nodes: for each follower in order, the follower
\* itself when it is a leaf, else its own collection.  `self` is never pushed.
RECURSIVE collect_leaf_nodes(_, _)
RECURSIVE CollectBranches(_, _, _)
CollectBranches(F, n, i) ==
    IF i > Len(F[n]) THEN <<>>
    ELSE (IF ~is_leaf(F, F[n][i]) THEN collect_leaf_nodes(F, F[n][i]) ELSE <<F[n][i]>>)
         \o CollectBranches(F, n, i + 1)

collect_leaf_nodes(F, n) == CollectBranches(F, n, 1)

\* EventDAG::node_chains: one chain per path from n to a follower-less node.
RECURSIVE node_chains(_, _)
RECURSIVE ChainsOfBranches(_, _, _)
ChainsOfBranches(F, n, i) ==
    IF i > Len(F[n]) THEN <<>>
    ELSE LET from_branch == node_chains(F, F[n][i])
         IN  [j \in 1 .. Len(from_branch) |-> <<n>> \o from_branch[j]]
             \o ChainsOfBranches(F, n, i + 1)

node_chains(F, n) ==
    IF Len(F[n]) = 0 THEN << <<n>> >> ELSE ChainsOfBranches(F, n, 1)

\* The inner loop of evaluate_chains: fold a chain's operations over payload.
RECURSIVE EvalChain(_, _, _)
EvalChain(O, chain, current) ==
    IF chain = <<>> THEN current
    ELSE EvalChain(O, Tail(chain), ApplyOp(O[Head(chain)], current))

\* EventDAG::evaluate_chains
evaluate_chains(O, F, n, payload) ==
    LET chains == node_chains(F, n)
    IN  [j \in 1 .. Len(chains) |-> EvalChain(O, chains[j], payload)]

\* A faulty evaluate_depth: hands the incoming payload, not the node's own
\* result, to the followers.
RECURSIVE evaluate_depth_stale(_, _, _, _)
evaluate_depth_stale(O, F, n, payload) ==
    LET current == ApplyOp(O[n], payload)
    IN  IF Len(F[n]) = 0 THEN <<current>>
        ELSE Flatten([i \in 1 .. Len(F[n]) |->
                        evaluate_depth_stale(O, F, F[n][i], payload)])

\* A faulty evaluate_depth: a follower that is a leaf yields its result only
\* the first time it occurs among the followers of a node.
RECURSIVE evaluate_depth_dedup(_, _, _, _)
evaluate_depth_dedup(O, F, n, payload) ==
    LET current == ApplyOp(O[n], payload)
    IN  IF Len(F[n]) = 0 THEN <<current>>
        ELSE Flatten([i \in 1 .. Len(F[n]) |->
                        IF \E j \in 1 .. i - 1 : F[n][j] = F[n][i] THEN <<>>
                        ELSE evaluate_depth_dedup(O, F, F[n][i], current)])

\* EventDAG::evaluate_depth: apply the own operation, then either return the
\* value (no followers) or the followers' results, flattened in order.
RECURSIVE evaluate_depth(_, _, _, _)
evaluate_depth(O, F, n, payload) ==
    LET current == ApplyOp(O[n], payload)
    IN  IF Len(F[n]) = 0 THEN <<current>>
        ELSE Flatten([i \in 1 .. Len(F[n]) |-> evaluate_depth(O, F, F[n][i], current)])

-----------------------------------------------------------------------------
(* The branching generators: pure functions of a graph, a frontier          *)
(* (previous) and an operation chain, giving the graph after the call and   *)
(* the returned frontier (result).                                          *)

\* for op in operations { nodes.push(EventDAG::new_node(Box::new(op))) }
RECURSIVE CreateNodes(_, _, _)
CreateNodes(O, F, operations) ==
    IF operations = <<>> THEN [operation |-> O, followers |-> F]
    ELSE LET g == new_node(O, F, Head(operations))
         IN  CreateNodes(g.operation, g.followers, Tail(operations))

\* nodes.iter().reduce(|acc, cur| { acc.add_follower_node(&cur); cur }):
\* every created node but the last gets the next one as a follower.
RECURSIVE LinkChain(_, _)
LinkChain(F, ids) ==
    IF Len(ids) < 2 THEN F
    ELSE LinkChain(add_follower_node(F, ids[1], ids[2]), Tail(ids))

\* for prev in previous { prev.add_follower_node(new_root) }
RECURSIVE AttachRoot(_, _, _)
AttachRoot(F, previous, new_root) ==
    IF previous = <<>> THEN F
    ELSE AttachRoot(add_follower_node(F, Head(previous), new_root), Tail(previous), new_root)

\* for node in nodes.iter() { prev.add_follower_node(&node) }
RECURSIVE AttachEach(_, _, _)
AttachEach(F, prev, ids) ==
    IF ids = <<>> THEN F
    ELSE AttachEach(add_follower_node(F, prev, Head(ids)), prev, Tail(ids))

\* for prev in previous { for node in nodes.iter() { ... } }
RECURSIVE AttachAll(_, _, _)
AttachAll(F, previous, ids) ==
    IF previous = <<>> THEN F
    ELSE AttachAll(AttachEach(F, Head(previous), ids), Tail(previous), ids)

\* The ids of the nodes a generator creates for `operations` in arena F.
NewIds(F, operations) == [i \in 1 .. Len(operations) |-> Len(F) + i]

\* A faulty sequence: attaches the chain's last node, not its first, to the
\* frontier.
sequence_attach_leaf(O, F, previous, operations) ==
    IF Len(operations) = 0
    THEN [operation |-> O, followers |-> F, result |-> previous]
    ELSE LET ids == NewIds(F, operations)
             g == CreateNodes(O, F, operations)
             linked == LinkChain(g.followers, ids)
         IN  [operation |-> g.operation,
              followers |-> AttachRoot(linked, previous, ids[Len(ids)]),
              result |-> <<ids[Len(ids)]>>]

\* A faulty sequence: an empty operation list yields an empty frontier.
sequence_drop_frontier(O, F, previous, operations) ==
    IF Len(operations) = 0
    THEN [operation |-> O, followers |-> F, result |-> <<>>]
    ELSE LET ids == NewIds(F, operations)
             g == CreateNodes(O, F, operations)
             linked == LinkChain(g.followers, ids)
         IN  [operation |-> g.operation,
              followers |-> AttachRoot(linked, previous, ids[1]),
              result |-> <<ids[Len(ids)]>>]

\* A faulty sequence: the chain's last node also gets the frontier nodes as its
\* followers, closing a loop through every frontier node.
sequence_closing(O, F, previous, operations) ==
    IF Len(operations) = 0
    THEN [operation |-> O, followers |-> F, result |-> previous]
    ELSE LET ids == NewIds(F, operations)
             g == CreateNodes(O, F, operations)
             linked == LinkChain(g.followers, ids)
             attached == AttachRoot(linked, previous, ids[1])
         IN  [operation |-> g.operation,
              followers |-> AttachEach(attached, ids[Len(ids)], previous),
              result |-> <<ids[Len(ids)]>>]

\* branching_generators::sequence
sequence(O, F, previous, operations) ==
    IF Len(operations) = 0
    THEN [operation |-> O, followers |-> F, result |-> previous]
    ELSE LET ids == NewIds(F, operations)
             g == CreateNodes(O, F, operations)
             linked == LinkChain(g.followers, ids)
         IN  [operation |-> g.operation,
              followers |-> AttachRoot(linked, previous, ids[1]),
              result |-> <<ids[Len(ids)]>>]

\* A faulty alternatives: links the new nodes to each other as sequence does.
alternatives_linked(O, F, previous, operations) ==
    IF Len(operations) = 0
    THEN [operation |-> O, followers |-> F, result |-> previous]
    ELSE LET ids == NewIds(F, operations)
             g == CreateNodes(O, F, operations)
         IN  [operation |-> g.operation,
              followers |-> AttachAll(LinkChain(g.followers, ids), previous, ids),
              result |-> ids]

\* A faulty alternatives: only the first frontier node gets the new nodes.
alternatives_first_prev(O, F, previous, operations) ==
    IF Len(operations) = 0
    THEN [operation |-> O, followers |-> F, result |-> previous]
    ELSE LET ids == NewIds(F, operations)
             g == CreateNodes(O, F, operations)
         IN  [operation |-> g.operation,
              followers |-> AttachAll(g.followers,
                                       IF previous = <<>> THEN <<>> ELSE <<Head(previous)>>,
                                       ids),
              result |-> ids]

\* branching_generators::alternatives
alternatives(O, F, previous, operations) ==
    IF Len(operations) = 0
    THEN [operation |-> O, followers |-> F, result |-> previous]
    ELSE LET ids == NewIds(F, operations)
             g == CreateNodes(O, F, operations)
         IN  [operation |-> g.operation,
              followers |-> AttachAll(g.followers, previous, ids),
              result |-> ids]

\* A faulty generator_map: the two names are registered the wrong way round.
generator_map_swapped(name, O, F, previous, operations) ==
    CASE name = "sequence" -> alternatives(O, F, previous, operations)
      [] name = "alternatives" -> sequence(O, F, previous, operations)

\* branching_generators::generator_map
generator_map(name, O, F, previous, operations) ==
    CASE name = "sequence" -> sequence(O, F, previous, operations)
      [] name = "alternatives" -> alternatives(O, F, previous, operations)

GeneratorNames == {"sequence", "alternatives"}

-----------------------------------------------------------------------------
(* Reachability (not part of the program: the engine checks none of this). *)

RECURSIVE ReachClosure(_, _)
ReachClosure(F, S) ==
    LET T == S \cup UNION {Range(F[n]) : n \in S}
    IN  IF T = S THEN S ELSE ReachClosure(F, T)

\* The nodes reachable from n, n included.
Reachable(F, n) == ReachClosure(F, {n})

\* Whether a cycle is reachable from n.
CycleFrom(F, n) == \E m \in Reachable(F, n) : m \in ReachClosure(F, Range(F[m]))

Acyclic(F) == \A n \in NodeIds(F) : ~CycleFrom(F, n)

\* The distinct follower-less nodes reachable from n.
LeafSet(F, n) == {m \in Reachable(F, n) : is_leaf(F, m)}

-----------------------------------------------------------------------------
(* Values of the variables a specification does not use.                   *)

NoClosure == [kind |-> "none", f |-> "none", params |-> NoParams]

Called(name, n, previous, operations) ==
    [name |-> name, node |-> n, previous |-> previous, operations |-> operations]

DriverIdle == simconfig = <<>> /\ pc = 0

BindIdle == configuration = <<>> /\ bound = NoClosure /\ given = NoParams /\ val = <<>>

TravIdle == tfn = "none" /\ tstart = 0 /\ stack = <<>> /\ tstate = "idle" /\ tresult = <<>>

-----------------------------------------------------------------------------
(* GraphSpec: graphs built by hand through the EventDAG API, as the unit   *)
(* tests of event_graph.rs do (create_fixture, graph_is_extensible,        *)
(* nodes_are_shareable).  The caller keeps the graph acyclic.              *)

\* The operations the hand-built graphs hold.
GraphOps == {PlainOp("increment"), PlainOp("double")}

GraphInit ==
    /\ \E op \in GraphOps :
          /\ operation = new_node(<<>>, <<>>, op).operation
          /\ followers = new_node(<<>>, <<>>, op).followers
    /\ nodes = <<>>
    /\ call = Called("none", 0, <<>>, <<>>)
    /\ DriverIdle /\ BindIdle /\ TravIdle

\* let n = EventDAG::new_node(Box::new(op));
NewNode(op) ==
    /\ call.name = "none"
    /\ Len(operation) < MaxNodes
    /\ operation' = new_node(operation, followers, op).operation
    /\ followers' = new_node(operation, followers, op).followers
    /\ UNCHANGED <<nodes, call, driverVars, bindVars, travVars>>

\* n.borrow_mut().add_follower_node(&m), by a caller that attaches only nodes
\* created after n, as every caller in the repository does (create_fixture,
\* nodes_are_shareable, the generators): such a caller builds no cycle.
AddFollower(n, m) ==
    /\ call.name = "none"
    /\ EdgeCount(followers) < MaxEdges
    /\ n < m
    /\ followers' = add_follower_node(followers, n, m)
    /\ UNCHANGED <<operation, nodes, call, driverVars, bindVars, travVars>>

\* The loop of graph_is_extensible: one add_branch per collected entry.
RECURSIVE extend_leafs(_, _, _, _)
extend_leafs(O, F, leafs, op) ==
    IF leafs = <<>> THEN [operation |-> O, followers |-> F]
    ELSE LET g == add_branch(O, F, Head(leafs), op)
         IN  extend_leafs(g.operation, g.followers, Tail(leafs), op)

\* let leafs = r.collect_leaf_nodes(); for leaf in leafs { leaf.add_branch(new(op)) }
\* as in graph_is_extensible, the last thing done to the graph.  nodes keeps
\* the collected vector.
ExtendLeafs(r, op) ==
    LET leafs == collect_leaf_nodes(followers, r)
        g == extend_leafs(operation, followers, leafs, op)
    IN  /\ call.name = "none"
        /\ operation' = g.operation
        /\ followers' = g.followers
        /\ nodes' = leafs
        /\ call' = Called("extend_leafs", r, leafs, <<op>>)
        /\ UNCHANGED <<driverVars, bindVars, travVars>>

GraphNext ==
    \/ \E op \in GraphOps : NewNode(op)
    \/ \E n \in NodeIds(followers), m \in NodeIds(followers) : AddFollower(n, m)
    \/ \E r \in NodeIds(followers), op \in GraphOps : ExtendLeafs(r, op)

GraphSpec == GraphInit /\ [][GraphNext]_vars

-----------------------------------------------------------------------------
(* Counting paths (not part of the program).                               *)

\* The number of paths (sequences of follower edges) from n to node t.
RECURSIVE PathsTo(_, _, _)
PathsTo(F, n, t) ==
    IF n = t THEN 1
    ELSE SumSeq([i \in 1 .. Len(F[n]) |-> PathsTo(F, F[n][i], t)])

RECURSIVE SumOver(_, _, _, _)
SumOver(F, n, S, acc) ==
    IF S = {} THEN acc
    ELSE LET t == CHOOSE u \in S : TRUE
         IN  SumOver(F, n, S \ {t}, acc + PathsTo(F, n, t))

\* The number of paths from n to follower-less nodes.
LeafPaths(F, n) == SumOver(F, n, LeafSet(F, n), 0)

NoDuplicates(s) == \A i, j \in 1 .. Len(s) : s[i] = s[j] => i = j

Last(s) == s[Len(s)]

-----------------------------------------------------------------------------
(* Claims checked under GraphSpec.                                         *)

\* C1: on every acyclic graph, shared followers included, and for every start
\* node and initial state x, evaluate_depth and evaluate_chains return the same
\* sequence: the same length and the same value at every index.
C1_DepthEqualsChains ==
    Acyclic(followers) =>
        \A r \in NodeIds(followers), x \in Payloads :
            evaluate_depth(operation, followers, r, x)
                = evaluate_chains(operation, followers, r, x)

\* C1 witness: a graph in which some node follows two predecessors and the
\* evaluation from the root returns at least three results, not all equal.
C1_Witness ==
    /\ \E a, b, m \in NodeIds(followers) :
          a # b /\ m \in Range(followers[a]) /\ m \in Range(followers[b])
    /\ LET res == evaluate_depth(operation, followers, 1, 1)
       IN  Len(res) >= 3 /\ \E i, j \in 1 .. Len(res) : res[i] # res[j]

\* C7 as claimed: for every start node, a follower-less one included, there are
\* as many chains as collected leaves.
C7_ChainCountEqualsLeafCount ==
    Acyclic(followers) =>
        \A r \in NodeIds(followers) :
            Len(node_chains(followers, r)) = Len(collect_leaf_nodes(followers, r))

\* C9 as claimed: evaluate_depth returns as many results as there are distinct
\* follower-less nodes reachable from the start node.
C9_OneResultPerDistinctLeaf ==
    Acyclic(followers) =>
        \A r \in NodeIds(followers), x \in Payloads :
            Len(evaluate_depth(operation, followers, r, x))
                = Cardinality(LeafSet(followers, r))

\* C9 amended: evaluate_depth returns one result per path from the start node to
\* a follower-less node, so a leaf reachable along several paths yields several
\* results; the length equals the number of distinct leaves exactly when no leaf
\* is reachable along more than one path.
C9_OneResultPerLeafPath ==
    Acyclic(followers) =>
        \A r \in NodeIds(followers), x \in Payloads :
            LET n == Len(evaluate_depth(operation, followers, r, x))
            IN  /\ n = LeafPaths(followers, r)
                /\ (n = Cardinality(LeafSet(followers, r))
                      <=> \A t \in LeafSet(followers, r) : PathsTo(followers, r, t) = 1)

\* C9 witness: a leaf reachable from the root through two different predecessors.
C9_Witness ==
    \E a, b, t \in NodeIds(followers) :
        /\ a # b /\ is_leaf(followers, t)
        /\ t \in Range(followers[a]) /\ t \in Range(followers[b])
        /\ {a, b} \subseteq Reachable(followers, 1)
        /\ Len(evaluate_depth(operation, followers, 1, 0)) > Cardinality(LeafSet(followers, 1))

\* The nodes created by the step that is being taken.
Created == Len(operation) + 1 .. Len(operation')

\* C8 as claimed, for a start node r that has followers (a follower-less r is
\* the case of C7): after one fresh node was attached to every entry collected
\* from r, collecting again returns exactly the new nodes, as many as before;
\* the number of chains is unchanged and every chain is one node longer.
C8_ExtensionClaimed ==
    [][(call'.name = "extend_leafs" /\ ~is_leaf(followers, call'.node)) =>
        LET r == call'.node
            again == collect_leaf_nodes(followers', r)
            before == node_chains(followers, r)
            after == node_chains(followers', r)
        IN  /\ Range(again) = Created
            /\ Len(again) = Len(call'.previous)
            /\ Len(after) = Len(before)
            /\ \A j \in 1 .. Len(after) : Len(after[j]) = Len(before[j]) + 1
      ]_vars

\* C8 amended: when the collection from r returns no node twice, collecting again
\* after the extension returns exactly the new nodes, in creation order and as many
\* as before; the number of chains is unchanged; every chain is the old chain plus
\* one new node, except the single chain of a follower-less r, which is not
\* collected and stays as it is.
C8_ExtensionOfDistinctLeafs ==
    [][(call'.name = "extend_leafs" /\ NoDuplicates(call'.previous)) =>
        LET r == call'.node
            again == collect_leaf_nodes(followers', r)
            before == node_chains(followers, r)
            after == node_chains(followers', r)
        IN  /\ again = [i \in 1 .. Len(call'.previous) |-> Len(operation) + i]
            /\ Range(again) = Created
            /\ Len(after) = Len(before)
            /\ \A j \in 1 .. Len(after) :
                  IF is_leaf(followers, r) THEN after[j] = before[j]
                  ELSE /\ Len(after[j]) = Len(before[j]) + 1
                       /\ SubSeq(after[j], 1, Len(before[j])) = before[j]
                       /\ Last(after[j]) \in Created
      ]_vars

\* C8 witness: an extension of at least two distinct collected leaves, one of them
\* not a direct follower of the start node.
C8_Witness ==
    /\ call.name = "extend_leafs"
    /\ Len(call.previous) >= 2
    /\ NoDuplicates(call.previous)
    /\ \E i \in 1 .. Len(call.previous) : call.previous[i] \notin Range(followers[call.node])
    /\ collect_leaf_nodes(followers, call.node)
          = [i \in 1 .. Len(call.previous) |-> Len(operation) - Len(call.previous) + i]

-----------------------------------------------------------------------------
(* GenSpec: generator calls on any frontier of existing nodes, starting     *)
(* from a single root holding do_nothing (generator_root of the tests).     *)

GenInit ==
    /\ operation = new_node(<<>>, <<>>, PlainOp("do_nothing")).operation
    /\ followers = new_node(<<>>, <<>>, PlainOp("do_nothing")).followers
    /\ nodes = <<1>>
    /\ call = Called("none", 0, <<>>, <<>>)
    /\ DriverIdle /\ BindIdle /\ TravIdle

\* nodes = generator(previous, operations), with generator looked up by name.
Generate(name, previous, operations) ==
    LET g == generator_map(name, operation, followers, previous, operations)
    IN  /\ pc < MaxCalls
        /\ Len(operation) + Len(operations) <= MaxGenNodes
        /\ operation' = g.operation
        /\ followers' = g.followers
        /\ nodes' = g.result
        /\ call' = Called(name, 0, previous, operations)
        /\ pc' = pc + 1
        /\ UNCHANGED <<simconfig, bindVars, travVars>>

GenNext ==
    \E name \in GeneratorNames,
       previous \in SeqsUpTo(NodeIds(followers), MaxFrontier),
       operations \in SeqsUpTo(GraphOps, MaxOps) :
        Generate(name, previous, operations)

GenSpec == GenInit /\ [][GenNext]_vars

-----------------------------------------------------------------------------
(* DriverSpec: the loop of test_simple_run.  simconfig is drawn at the      *)
(* start; every declaration is resolved through generator_map and          *)
(* operation_map, its operations are bound to their configured parameters, *)
(* and the frontier returned by one generator is handed to the next.       *)

OperationNames == {"increment", "decrement"}

\* configuration of test_simple_run: increment -> {increase: "2"},
\* decrement -> {decrease: "1"}
TestConfiguration ==
    [name \in OperationNames |->
        IF name = "increment" THEN [k \in {"increase"} |-> <<"2">>]
        ELSE [k \in {"decrease"} |-> <<"1">>]]

Declarations ==
    {[generator |-> g, operations |-> ops] :
        g \in GeneratorNames, ops \in SeqsUpTo(OperationNames, MaxOps)}

\* simconfig of test_simple_run
TestSimconfig ==
    << [generator |-> "sequence", operations |-> <<"increment", "increment">>],
       [generator |-> "alternatives", operations |-> <<"increment", "decrement">>],
       [generator |-> "sequence", operations |-> <<"increment", "increment">>] >>

\* The operation chain of a declaration: bound_operation(op, params.clone())
\* for each operation name.
BindAll(names, config) ==
    [i \in 1 .. Len(names) |-> bound_operation(names[i], config[names[i]])]

DriverInit ==
    /\ operation = new_node(<<>>, <<>>, PlainOp("do_nothing")).operation
    /\ followers = new_node(<<>>, <<>>, PlainOp("do_nothing")).followers
    /\ nodes = <<1>>
    /\ call = Called("none", 0, <<>>, <<>>)
    /\ simconfig \in SeqsUpTo(Declarations, MaxSteps)
    /\ pc = 0
    /\ configuration = TestConfiguration
    /\ bound = NoClosure /\ given = NoParams /\ val = <<>>
    /\ TravIdle

\* for generable in sim { nodes = generable.0(nodes, generable.1) }
DriverStep ==
    /\ pc < Len(simconfig)
    /\ LET decl == simconfig[pc + 1]
           ops == BindAll(decl.operations, configuration)
           g == generator_map(decl.generator, operation, followers, nodes, ops)
       IN  /\ operation' = g.operation
           /\ followers' = g.followers
           /\ nodes' = g.result
           /\ call' = Called(decl.generator, 0, nodes, ops)
    /\ pc' = pc + 1
    /\ UNCHANGED <<simconfig, bindVars, travVars>>

DriverNext == DriverStep

DriverSpec == DriverInit /\ [][DriverNext]_vars

-----------------------------------------------------------------------------
(* Claims checked under GenSpec.  In a step, the unprimed graph is the      *)
(* graph before the generator call and call' holds the call's arguments.   *)

\* o_n(...o_1(e)...): the operations of a chain applied in order.
RECURSIVE ApplyAll(_, _)
ApplyAll(operations, e) ==
    IF operations = <<>> THEN e
    ELSE ApplyAll(Tail(operations), ApplyOp(Head(operations), e))

\* How often node m occurs in a frontier.
Occurrences(previous, m) == Cardinality({i \in 1 .. Len(previous) : previous[i] = m})

RECURSIVE Repeat(_, _)
Repeat(s, k) == IF k = 0 THEN <<>> ELSE s \o Repeat(s, k - 1)

IsPrefix(s, t) == Len(s) <= Len(t) /\ SubSeq(t, 1, Len(s)) = s

\* C2: sequence(frontier, [o1..on]) with n >= 1 creates exactly n nodes holding
\* o1..on, linked as a linear chain; every frontier node keeps its followers and
\* gets the chain's first node as its last follower; the returned frontier is the
\* chain's last node alone.  For every root r whose leaves are exactly the frontier
\* nodes (each held once), evaluating from r with any x afterwards yields the
\* results from before the call, each e replaced by on(...o1(e)...), in the same
\* order and number.
C2_SequenceExtendsEveryChain ==
    [][(call'.name = "sequence" /\ call'.operations # <<>>) =>
        LET previous == call'.previous
            ops == call'.operations
            n == Len(ops)
            base == Len(operation)
        IN  /\ Len(operation') = base + n
            /\ Len(followers') = base + n
            /\ \A i \in 1 .. n : operation'[base + i] = ops[i]
            /\ \A i \in 1 .. n - 1 : followers'[base + i] = <<base + i + 1>>
            /\ followers'[base + n] = <<>>
            /\ \A m \in Range(previous) :
                  /\ IsPrefix(followers[m], followers'[m])
                  /\ Last(followers'[m]) = base + 1
            /\ nodes' = <<base + n>>
            /\ \A r \in NodeIds(followers) :
                  (NoDuplicates(previous) /\ Range(previous) = LeafSet(followers, r)) =>
                      \A x \in Payloads :
                          LET before == evaluate_depth(operation, followers, r, x)
                              after == evaluate_depth(operation', followers', r, x)
                          IN  after = [j \in 1 .. Len(before) |-> ApplyAll(ops, before[j])]
      ]_vars

\* C2 witness: a two-operation sequence was attached to a frontier of two
\* distinct leaves of the root, and its last node is now the root's only leaf.
C2_Witness ==
    /\ call.name = "sequence"
    /\ Len(call.operations) = 2
    /\ call.operations[1] # call.operations[2]
    /\ Len(call.previous) = 2
    /\ NoDuplicates(call.previous)
    /\ \A m \in Range(call.previous) :
          followers[m] = <<Len(followers) - 1>> /\ m \in Reachable(followers, 1)
    /\ LeafSet(followers, 1) = Range(nodes)
    /\ nodes = <<Len(followers)>>

\* C3: alternatives(frontier, ops) with |frontier| = f and |ops| = k >= 1 creates
\* exactly k nodes holding the operations in order, none with a follower; the
\* graph gains exactly f * k follower entries, every frontier node getting all new
\* nodes in operation order after its old followers (once per time it is held in
\* the frontier); the returned frontier is the k new nodes in operation order.
\* Evaluating from a frontier node that was a leaf before the call, and that the
\* frontier holds once, yields exactly k results, the i-th being the i-th
\* operation applied to the result of the node's own operation.
C3_AlternativesFanOut ==
    [][(call'.name = "alternatives" /\ call'.operations # <<>>) =>
        LET previous == call'.previous
            ops == call'.operations
            k == Len(ops)
            f == Len(previous)
            base == Len(operation)
            ids == [i \in 1 .. k |-> base + i]
        IN  /\ Len(operation') = base + k
            /\ Len(followers') = base + k
            /\ \A i \in 1 .. k : operation'[base + i] = ops[i] /\ followers'[base + i] = <<>>
            /\ EdgeCount(followers') = EdgeCount(followers) + f * k
            /\ \A m \in Range(previous) :
                  followers'[m] = followers[m] \o Repeat(ids, Occurrences(previous, m))
            /\ nodes' = ids
            /\ \A m \in Range(previous) :
                  (is_leaf(followers, m) /\ Occurrences(previous, m) = 1) =>
                      \A x \in Payloads :
                          evaluate_depth(operation', followers', m, x)
                              = [i \in 1 .. k |-> ApplyOp(ops[i], ApplyOp(operation[m], x))]
      ]_vars

\* C3 witness: two alternatives were attached to a frontier of two distinct
\* leaves, which now share both new nodes.
C3_Witness ==
    /\ call.name = "alternatives"
    /\ Len(call.operations) = 2
    /\ call.operations[1] # call.operations[2]
    /\ Len(call.previous) = 2
    /\ NoDuplicates(call.previous)
    /\ \A m \in Range(call.previous) : followers[m] = nodes
    /\ nodes = <<Len(followers) - 1, Len(followers)>>

\* C4: a generator called with an empty operation list returns the frontier it
\* was given, creates no node and adds no edge: every followers list, every
\* operation and every evaluation from any node are as before the call.
C4_EmptyOperationsNoOp ==
    [][(call'.name \in GeneratorNames /\ call'.operations = <<>>) =>
        /\ nodes' = call'.previous
        /\ Len(operation') = Len(operation)
        /\ operation' = operation
        /\ followers' = followers
        /\ \A r \in NodeIds(followers), x \in Payloads :
              /\ evaluate_depth(operation', followers', r, x)
                    = evaluate_depth(operation, followers, r, x)
              /\ evaluate_chains(operation', followers', r, x)
                    = evaluate_chains(operation, followers, r, x)
      ]_vars

\* C4 witness: sequence was called with no operation on a frontier of two nodes
\* of a graph that already branches, and returned that frontier.
C4_Witness ==
    /\ call.name = "sequence"
    /\ call.operations = <<>>
    /\ Len(call.previous) = 2
    /\ nodes = call.previous
    /\ Len(followers[1]) >= 2

\* The entries a call appended to the followers list of the existing node m.
Appended(m) == SubSeq(followers'[m], Len(followers[m]) + 1, Len(followers'[m]))

\* C11: generators cannot introduce a cycle.  In every sequence/alternatives call
\* on any frontier: every existing followers list is only appended to, and every
\* entry appended to it is a node created in that call; every follower of a node
\* created in the call is another node created in the call; nodes outside the
\* frontier keep their followers and every old node keeps its operation; and a
\* graph that was acyclic before the call is acyclic after it.
C11_GeneratorsAddNoCycle ==
    [][call'.name \in GeneratorNames =>
        /\ \A m \in NodeIds(followers) :
              /\ IsPrefix(followers[m], followers'[m])
              /\ Range(Appended(m)) \subseteq Created
              /\ m \notin Range(call'.previous) => followers'[m] = followers[m]
              /\ operation'[m] = operation[m]
        /\ \A c \in Created : Range(followers'[c]) \subseteq Created \ {c}
        /\ NodeIds(followers') = NodeIds(followers) \cup Created
        /\ Acyclic(followers) => Acyclic(followers')
      ]_vars

\* C11 witness: a two-operation sequence was attached to a frontier holding a
\* node that already had a follower, while another node with followers stayed
\* outside the frontier; the graph is acyclic.
C11_Witness ==
    /\ call.name = "sequence"
    /\ Len(call.operations) = 2
    /\ \E m \in Range(call.previous) :
          /\ Len(followers[m]) >= 2
          /\ Last(followers[m]) = Len(followers) - 1
    /\ \E m \in NodeIds(followers) :
          /\ m \notin Range(call.previous)
          /\ m < Len(followers) - 1
          /\ followers[m] # <<>>
    /\ followers[Len(followers) - 1] = <<Len(followers)>>
    /\ Acyclic(followers)

-----------------------------------------------------------------------------
(* Claims checked under DriverSpec.                                        *)

\* C5: from a root holding the identity and the frontier [root], after
\* sequence([+2, +2]), alternatives([+2, -1]) and sequence([+2, +2]), each fed the
\* frontier the previous one returned, evaluate_depth from the root with initial
\* state 10 returns [20, 17].
C5_SimpleRun ==
    (simconfig = TestSimconfig /\ pc = Len(simconfig)) =>
        evaluate_depth(operation, followers, 1, 10) = <<20, 17>>

\* C5 witness: the driver has applied the three declarations of test_simple_run.
C5_Witness ==
    /\ simconfig = TestSimconfig
    /\ pc = 3
    /\ Len(operation) = 7
    /\ nodes = <<7>>

\* C12: when the driver starts with the frontier [root] of a follower-less root
\* and hands each generator the frontier the previous one returned (sequence or
\* alternatives, with empty or non-empty operation lists), then after every call
\* the frontier holds exactly the follower-less nodes reachable from the root,
\* each exactly once, and no node of the frontier has a follower.
C12_FrontierIsTheLeaves ==
    /\ NoDuplicates(nodes)
    /\ Range(nodes) = LeafSet(followers, 1)
    /\ \A i \in 1 .. Len(nodes) : is_leaf(followers, nodes[i])

\* C12 witness: after an empty declaration and two alternatives of two
\* operations each, the frontier is the two newest nodes, each reachable from the
\* root along two paths, so that collect_leaf_nodes(root) lists four leaves.
C12_Witness ==
    /\ pc = 3
    /\ \E i \in 1 .. 3 : simconfig[i].operations = <<>>
    /\ call.name = "alternatives"
    /\ Len(call.previous) = 2
    /\ nodes = <<Len(followers) - 1, Len(followers)>>
    /\ \A m \in Range(call.previous) : followers[m] = nodes
    /\ Len(collect_leaf_nodes(followers, 1)) = 4

-----------------------------------------------------------------------------
(* BindSpec: a caller binds an operation to the parameters its              *)
(* configuration holds for it (bound_operation(op, params.clone())), calls  *)
(* the bound operation repeatedly on the value it returned                  *)
(* (operation_binding_works), and may change its own configuration         *)
(* afterwards.  val is the sequence of values: the initial one, then the    *)
(* result of every call.                                                    *)

\* Parameter values a configuration may hold: "1", "2", "10", "-3", "+5", and
\* the empty string and "x", which do not parse.
ParamValues ==
    {<<"1">>, <<"2">>, <<"1", "0">>, <<"-", "3">>, <<"+", "5">>, <<>>, <<"x">>}

BindInit ==
    /\ operation = <<>> /\ followers = <<>> /\ nodes = <<>>
    /\ call = Called("none", 0, <<>>, <<>>)
    /\ DriverIdle
    /\ configuration = TestConfiguration
    /\ bound = NoClosure
    /\ given = NoParams
    /\ val = <<>>
    /\ TravIdle

\* let operation = bound_operation(op, params); let mut val = x;
Bind(name, x) ==
    /\ call.name # "panic"
    /\ bound' = bound_operation(name, configuration[name])
    /\ given' = configuration[name]
    /\ val' = <<x>>
    /\ call' = Called("bound_operation", 0, <<>>, <<>>)
    /\ UNCHANGED <<operation, followers, nodes, driverVars, configuration, travVars>>

\* val = operation(val);  When the operation panics on an unwrap, val is not
\* assigned and the panic unwinds the caller, which does nothing more.
CallBound ==
    /\ call.name # "panic"
    /\ bound.kind = "bound"
    /\ Len(val) <= MaxBoundCalls
    /\ IF Panics(bound.f, ClosureParams(bound))
       THEN /\ val' = val
            /\ call' = Called("panic", 0, <<>>, <<>>)
       ELSE /\ val' = Append(val, ApplyOp(bound, Last(val)))
            /\ call' = Called("call", 0, <<>>, <<>>)
    /\ UNCHANGED <<operation, followers, nodes, driverVars, configuration, bound, given,
                   travVars>>

\* The caller changes the parameters its configuration holds for `name`.
Reconfigure(name, v) ==
    /\ call.name # "panic"
    /\ configuration[name][ParamKey(name)] # v
    /\ configuration' = [configuration EXCEPT ![name] = [k \in DOMAIN @ |-> v]]
    /\ call' = Called("reconfigure", 0, <<>>, <<>>)
    /\ UNCHANGED <<operation, followers, nodes, driverVars, bound, given, val, travVars>>

BindNext ==
    \/ \E name \in OperationNames, x \in Payloads : Bind(name, x)
    \/ CallBound
    \/ \E name \in OperationNames, v \in ParamValues : Reconfigure(name, v)

BindSpec == BindInit /\ [][BindNext]_vars

\* C6: every call of a bound operation does what op(x, params) does for the
\* params given to bound_operation, whatever the caller did to its own parameters
\* since: it panics exactly when op panics on those params, and otherwise after
\* n calls the value is n applications of op with the original params.
C6_BoundEqualsOpWithGivenParams ==
    bound.kind = "bound" =>
        /\ call.name = "panic" => Panics(bound.f, given)
        /\ Len(val) >= 2 => ~Panics(bound.f, given)
        /\ ~Panics(bound.f, given) =>
              \A i \in 2 .. Len(val) : val[i] = CallParametered(bound.f, val[i - 1], given)

\* C6 witness: a bound operation was called three times, and the caller's
\* configuration no longer holds the parameters it was bound to.
C6_Witness ==
    /\ bound.kind = "bound"
    /\ Len(val) = 4
    /\ configuration[bound.f] # given
    /\ val[4] # val[1]
    /\ call.name = "call"

-----------------------------------------------------------------------------
(* TravSpec: the recursive traversals of event_graph.rs executed step by    *)
(* step on an explicit call stack, on graphs built through new_node and     *)
(* add_follower_node without any discipline (a node may follow itself).     *)
(* A frame is one activation: its node, the index of the follower handled   *)
(* next, the result vector built so far, the incoming payload and the       *)
(* payload handed on (evaluate_depth: the node's `current`).  The stack is  *)
(* cut off at MaxDepth frames, where the program's stack would keep         *)
(* growing.                                                                 *)

TravFunctions == {"collect_leaf_nodes", "node_chains", "evaluate_chains", "evaluate_depth"}

TravInit ==
    /\ operation = new_node(<<>>, <<>>, PlainOp("increment")).operation
    /\ followers = new_node(<<>>, <<>>, PlainOp("increment")).followers
    /\ nodes = <<>>
    /\ call = Called("none", 0, <<>>, <<>>)
    /\ DriverIdle /\ BindIdle /\ TravIdle

\* let n = EventDAG::new_node(Box::new(increment));
TravNewNode ==
    /\ tstate = "idle"
    /\ Len(operation) < MaxTravNodes
    /\ operation' = new_node(operation, followers, PlainOp("increment")).operation
    /\ followers' = new_node(operation, followers, PlainOp("increment")).followers
    /\ UNCHANGED <<nodes, call, driverVars, bindVars, travVars>>

\* n.borrow_mut().add_follower_node(&m): any m, n itself included.
TravAddFollower(n, m) ==
    /\ tstate = "idle"
    /\ EdgeCount(followers) < MaxTravEdges
    /\ followers' = add_follower_node(followers, n, m)
    /\ UNCHANGED <<operation, nodes, call, driverVars, bindVars, travVars>>

\* The activation of a traversal on node n with incoming payload x.
Frame(fn, n, x) ==
    [node |-> n, i |-> 1, acc |-> <<>>, payload |-> x,
     cur |-> IF fn = "evaluate_depth" THEN ApplyOp(operation[n], x) ELSE x]

\* The caller invokes one of the traversals on node n.
TravStart(fn, n, x) ==
    /\ tstate = "idle"
    /\ tfn' = fn
    /\ tstart' = n
    /\ stack' = <<Frame(fn, n, x)>>
    /\ tstate' = "running"
    /\ tresult' = <<>>
    /\ UNCHANGED <<graphVars, driverVars, bindVars>>

Top == stack[Len(stack)]

\* Whether the innermost activation has a follower left to handle.
HasBranch == Top.i <= Len(followers[Top.node])

Branch == followers[Top.node][Top.i]

\* A faulty traversal: does not descend into a node that is on the active path.
DescendsUnlessActive(stk, branch) == \A d \in 1 .. Len(stk) : stk[d].node # branch

\* Whether a traversal descends into a follower it handles: always, there is
\* no visited set and no cycle check.
Descends(stk, branch) == branch = branch

\* Whether the innermost activation makes a recursive call for its next
\* follower: collect_leaf_nodes pushes a follower that is a leaf itself.
Recurses ==
    /\ HasBranch
    /\ tfn = "collect_leaf_nodes" => ~is_leaf(followers, Branch)

\* The recursive call for the next follower.
TravCall ==
    /\ tstate = "running"
    /\ Recurses
    /\ Len(stack) < MaxDepth
    /\ stack' = IF Descends(stack, Branch)
                THEN Append(stack, Frame(tfn, Branch, Top.cur))
                ELSE [stack EXCEPT ![Len(stack)].i = @ + 1]
    /\ UNCHANGED <<graphVars, driverVars, bindVars, tfn, tstart, tstate, tresult>>

\* collect_leaf_nodes: result.push(Rc::clone(branch)) for a follower that is a leaf.
TravPushLeaf ==
    /\ tstate = "running"
    /\ tfn = "collect_leaf_nodes"
    /\ HasBranch
    /\ is_leaf(followers, Branch)
    /\ stack' = [stack EXCEPT ![Len(stack)].acc = Append(@, Branch),
                              ![Len(stack)].i = @ + 1]
    /\ UNCHANGED <<graphVars, driverVars, bindVars, tfn, tstart, tstate, tresult>>

\* The value the innermost activation returns once no follower is left.
ReturnValue ==
    IF tfn = "collect_leaf_nodes" THEN Top.acc
    ELSE IF Len(followers[Top.node]) = 0
         THEN (IF tfn = "evaluate_depth" THEN <<Top.cur>> ELSE << <<Top.node>> >>)
         ELSE Top.acc

\* What the calling activation appends to its result for a returned value:
\* node_chains prepends itself to every chain, the others extend as is.
Extension(fn, caller, v) ==
    IF fn \in {"node_chains", "evaluate_chains"}
    THEN [j \in 1 .. Len(v) |-> <<caller.node>> \o v[j]]
    ELSE v

\* The innermost activation returns: to its caller, which extends its result
\* and moves to its next follower, or out of the traversal (evaluate_chains then
\* folds every chain over the payload).
TravReturn ==
    /\ tstate = "running"
    /\ ~HasBranch
    /\ IF Len(stack) > 1
       THEN LET caller == stack[Len(stack) - 1]
            IN  /\ stack' = [SubSeq(stack, 1, Len(stack) - 1) EXCEPT
                               ![Len(stack) - 1].acc = @ \o Extension(tfn, caller, ReturnValue),
                               ![Len(stack) - 1].i = @ + 1]
                /\ UNCHANGED <<tstate, tresult>>
       ELSE /\ stack' = <<>>
            /\ tstate' = "returned"
            /\ tresult' = IF tfn = "evaluate_chains"
                          THEN [j \in 1 .. Len(ReturnValue) |->
                                   EvalChain(operation, ReturnValue[j], Top.cur)]
                          ELSE ReturnValue
    /\ UNCHANGED <<graphVars, driverVars, bindVars, tfn, tstart>>

TravStep == TravCall \/ TravPushLeaf \/ TravReturn

TravNext ==
    \/ TravNewNode
    \/ \E n \in NodeIds(followers), m \in NodeIds(followers) : TravAddFollower(n, m)
    \/ \E fn \in TravFunctions, n \in NodeIds(followers), x \in Payloads : TravStart(fn, n, x)
    \/ TravStep

\* A started traversal keeps running: the program is single-threaded and
\* synchronous.
TravSpec == TravInit /\ [][TravNext]_vars /\ WF_vars(TravStep)

\* What the recursive definition of the running traversal returns.
Expected(fn, n, x) ==
    CASE fn = "collect_leaf_nodes" -> collect_leaf_nodes(followers, n)
      [] fn = "node_chains" -> node_chains(followers, n)
      [] fn = "evaluate_chains" -> evaluate_chains(operation, followers, n, x)
      [] fn = "evaluate_depth" -> evaluate_depth(operation, followers, n, x)

\* The step-by-step execution returns what the recursive definitions give.
TravAgrees ==
    [][(tstate = "running" /\ tstate' = "returned") =>
          tresult' = Expected(tfn, tstart, stack[1].payload)]_vars

\* C10: a traversal (collect_leaf_nodes, node_chains, evaluate_chains,
\* evaluate_depth) started on a node from which no cycle is reachable returns;
\* started on a node from which a cycle is reachable (a node that follows itself,
\* for one) it never returns, and its recursion gets as deep as the stack is
\* allowed to grow: nothing detects the cycle.
C10_ReturnsExactlyWithoutCycle ==
    /\ [](tstate = "returned" => ~CycleFrom(followers, tstart))
    /\ ((tstate = "running" /\ ~CycleFrom(followers, tstart)) ~> (tstate = "returned"))
    /\ ((tstate = "running" /\ CycleFrom(followers, tstart))
            ~> (tstate = "running" /\ Len(stack) = MaxDepth))

\* C10 witness: a traversal started on a node that is its own follower has
\* recursed down to the cut-off depth, every frame on that same node.
C10_Witness ==
    /\ tstate = "running"
    /\ tstart \in Range(followers[tstart])
    /\ Len(stack) = MaxDepth
    /\ \A d \in 1 .. Len(stack) : stack[d].node = tstart

====
